---- MODULE Spec2Model ----
(***************************************************************************)
(* Sun Stop Timer: the server-side timer state machine of server.js, its   *)
(* self re-arming tick timeout, the wall clock it reads, and the           *)
(* timer-update messages it emits to the connected socket.io clients.      *)
(*                                                                         *)
(* Every socket handler and every timeout callback of the Node.js event    *)
(* loop runs to completion, so each is one action.                         *)
(***************************************************************************)
EXTENDS Integers, Sequences, FiniteSets, TLC

\* ------------------------------------------------------------------ bounds

\* The wall clock is observed for MaxClockSteps readings after process start.
MaxClockSteps == 8
\* Timeout handles that can be outstanding at once.
MaxTimeouts == 2
\* Tunnel child processes that can exist at once.
MaxChildren == 2
\* State changes followed per run when client deliveries are tracked.
MaxLog == 2
\* Snapshots that can be in flight to one client when the clients are the Apps.
MaxInbox == 2

\* ------------------------------------------------------- program constants

MsPerSec == 1000
TickDelay == 200
MinSeconds == -5999
MaxSeconds == 5999
TunnelTimeoutMs == 30000

\* The clock is sampled every half second: sub-second and whole-second gaps
\* between two readings of Date.now() both occur.
Quantum == MsPerSec \div 2
\* The last clock value observed, in ms.
MaxNow == MaxClockSteps * Quantum

Clients == {"c1", "c2"}

\* ---------------------------------------------------------------- payloads

\* A payload a client can put on the wire. A number is carried in halves
\* (3 is 1.5) so that Math.round has something to round; finite = FALSE is
\* NaN or +-Infinity.
Num(h) == [type |-> "number", finite |-> TRUE, halves |-> h, text |-> ""]
NaNValue == [type |-> "number", finite |-> FALSE, halves |-> 0, text |-> ""]
Str(s) == [type |-> "string", finite |-> FALSE, halves |-> 0, text |-> s]
NoArg == [type |-> "undefined", finite |-> FALSE, halves |-> 0, text |-> ""]

\* -6000, -1.5, 0, 1, 1.5, 6000
NumHalves == {-12000, -3, 0, 2, 3, 12000}
SecondsPayloads == {Num(h) : h \in NumHalves} \cup {NaNValue, Str("90")}
ModePayloads == {Str("COUNT_UP"), Str("STOP"), Str("PAUSE")}

IsInteger(p) == p.type = "number" /\ p.finite /\ p.halves % 2 = 0

\* ----------------------------------------------------------- pure helpers

Max(a, b) == IF a >= b THEN a ELSE b
Min(a, b) == IF a <= b THEN a ELSE b

\* Math.round of h/2: the nearest integer, a tie going up (towards +Infinity).
MathRound(h) == (h + 1) \div 2

\* The payload check without Number.isFinite: NaN and Infinity pass.
IsNumberType(p) == p.type = "number"

\* typeof seconds !== 'number' || !Number.isFinite(seconds)
IsFiniteNumber(p) == p.type = "number" /\ p.finite

\* Clamped without its Math.min: the upper limit is forgotten.
ClampedNoUpper(p) == Max(MinSeconds, MathRound(p.halves))

\* Math.max(-5999, Math.min(5999, Math.round(seconds)))
Clamped(p) == Max(MinSeconds, Min(MaxSeconds, MathRound(p.halves)))

\* Math.floor((now - lastTick) / 1000)
Elapsed(t, lastTick) == (t - lastTick) \div MsPerSec

\* ------------------------------------------------------------------- state

VARIABLES
    state,          \* the timer state object {timeLeft, status, overtimeMode, lastTick}
    timerInterval,  \* the handle kept of the tick timeout: Null, Stale or a handle
    timeouts,       \* the tick timeouts the event loop holds: {[id, due]}
    now,            \* Date.now(), in ms since process start
    connected,      \* the sockets currently connected
    out,            \* what the last handler emitted, in order
    lastBroadcast,  \* the state carried by the last io.emit('timer-update')
    lastEvent,      \* the event the last handler served
    activeTunnel,   \* NoTunnel or {url, child}
    children,       \* the spawned cloudflared processes: {[id, alive, watched]}
    requests,       \* start-tunnel handlers suspended at an await
    binary,         \* the cloudflared binary: "present", "absent" or "unsupported"
    inbox,          \* per client, the timer-updates in flight to it, oldest first
    view,           \* per client, the App's timeLeft, status and overtimeMode
    log,            \* the state after each handler that changed or broadcast it
    since,          \* per client, the length of log when it connected
    got,            \* per client, the timer-updates received since it connected
    run             \* the RUNNING period under way: where it started and what
                    \* has been counted since

coreVars == <<state, timerInterval, timeouts, now, connected, out, lastBroadcast,
              lastEvent>>
tunnelVars == <<activeTunnel, children, requests, binary>>
netVars == <<inbox, view, log, since, got>>
runVars == <<run>>

vars == <<state, timerInterval, timeouts, now, connected, out, lastBroadcast,
          lastEvent, activeTunnel, children, requests, binary, inbox, view, log,
          since, got, run>>

Null == 0
\* A handle whose timeout has fired: truthy, and clearTimeout of it does nothing.
Stale == -1

NoSnapshot == [timeLeft |-> 0, status |-> "NONE", overtimeMode |-> "NONE", lastTick |-> -1]

Msg(to, type, snap) == [to |-> to, type |-> type, state |-> snap]
\* io.emit('timer-update', state)
TimerUpdate(s) == Msg("all", "timer-update", s)

Event(name, arg) == [name |-> name, arg |-> arg]

\* clearTimeout that cancels nothing.
ClearTimeoutNothing(ts, h) == ts

\* clearTimeout(h) on the event loop's timeouts
ClearTimeout(ts, h) == {t \in ts : t.id # h}

FreeIds(ts) == {i \in 1..MaxTimeouts : \A t \in ts : t.id # i}
NewId(ts) == CHOOSE i \in FreeIds(ts) : \A j \in FreeIds(ts) : i <= j
\* setTimeout(tick, 200) at clock t, returning handle NewId(ts)
SetTimeout(ts, t) == ts \cup {[id |-> NewId(ts), due |-> t + TickDelay]}

NoTunnel == [url |-> 0, child |-> 0]

\* No RUNNING period is under way.
NoRun == [t0 |-> 0, n |-> 0, counted |-> 0, by |-> "none", from |-> "none", gap |-> 0]

\* What App shows before its first timer-update: useState(0), useState('IDLE'),
\* useState('COUNT_UP').
InitialView == [timeLeft |-> 0, status |-> "IDLE", overtimeMode |-> "COUNT_UP"]

\* The state at module load, with the binary in state b.
InitWith(b) ==
    /\ state = [timeLeft |-> 0, status |-> "IDLE", overtimeMode |-> "COUNT_UP",
                lastTick |-> 0]
    /\ timerInterval = Null
    /\ timeouts = {}
    /\ now = 0
    /\ connected = {}
    /\ out = <<>>
    /\ lastBroadcast = NoSnapshot
    /\ lastEvent = Event("init", NoArg)
    /\ activeTunnel = NoTunnel
    /\ children = {}
    /\ requests = {}
    /\ binary = b
    /\ inbox = [c \in Clients |-> <<>>]
    /\ view = [c \in Clients |-> InitialView]
    /\ log = <<state>>
    /\ since = [c \in Clients |-> 0]
    /\ got = [c \in Clients |-> 0]
    /\ run = NoRun

Init == InitWith("absent")

\* ------------------------------------------------------------------ clock

Advance ==
    /\ now + Quantum <= MaxNow
    /\ now' = now + Quantum
    /\ UNCHANGED <<state, timerInterval, timeouts, connected, out, lastBroadcast,
                   lastEvent>>

\* ------------------------------------------------------------- connections

\* io.on('connection'): the socket gets the state and the server info.
Connect(c) ==
    /\ c \notin connected
    /\ connected' = connected \cup {c}
    /\ out' = <<Msg(c, "timer-update", state), Msg(c, "server-info", NoSnapshot)>>
    /\ lastEvent' = Event("connection", NoArg)
    /\ UNCHANGED <<state, timerInterval, timeouts, now, lastBroadcast>>

\* The transport drops a socket; the server registers no handler for it.
Disconnect(c) ==
    /\ c \in connected
    /\ connected' = connected \ {c}
    /\ UNCHANGED <<state, timerInterval, timeouts, now, out, lastBroadcast,
                   lastEvent>>

\* ---------------------------------------------------------------- handlers

\* The state carried by the last io.emit('timer-update') among msgs, if any.
LastEmitted(msgs, before) ==
    LET idx == {i \in 1..Len(msgs) : msgs[i].to = "all" /\ msgs[i].type = "timer-update"}
    IN  IF idx = {} THEN before
        ELSE msgs[CHOOSE i \in idx : \A j \in idx : j <= i].state

\* What a timer handler leaves behind: the state object, the handle, the event
\* loop's timeouts and the messages it emitted.
Apply(ev, st, ti, ts, msgs) ==
    /\ state' = st
    /\ timerInterval' = ti
    /\ timeouts' = ts
    /\ out' = msgs
    /\ lastBroadcast' = LastEmitted(msgs, lastBroadcast)
    /\ lastEvent' = ev
    /\ UNCHANGED <<now, connected>>

\* A command needs a connected socket to arrive on.
Receives == connected # {}

\* socket.on('set-time')
SetTime(p) ==
    /\ Receives
    /\ IF ~IsFiniteNumber(p)
       THEN Apply(Event("set-time", p), state, timerInterval, timeouts, <<>>)
       ELSE LET st == [state EXCEPT !.timeLeft = Clamped(p), !.status = "IDLE"]
            IN  Apply(Event("set-time", p), st, Null,
                      ClearTimeout(timeouts, timerInterval), <<TimerUpdate(st)>>)

\* CanStart without its guard on timeLeft: any timer that is not RUNNING starts.
CanStartAtZero(st) == st.status # "RUNNING"

\* state.status !== 'RUNNING' && (state.timeLeft !== 0 || state.status === 'PAUSED')
CanStart(st) ==
    st.status # "RUNNING" /\ (st.timeLeft # 0 \/ st.status = "PAUSED")

\* start without its lastTick = Date.now().
StartKeepsLastTick ==
    /\ Receives
    /\ IF ~CanStart(state)
       THEN Apply(Event("start", NoArg), state, timerInterval, timeouts, <<>>)
       ELSE LET st == [state EXCEPT !.status = "RUNNING"]
                arm == timerInterval = Null
            IN  /\ arm => FreeIds(timeouts) # {}
                /\ Apply(Event("start", NoArg), st,
                         IF arm THEN NewId(timeouts) ELSE timerInterval,
                         IF arm THEN SetTimeout(timeouts, now) ELSE timeouts,
                         <<TimerUpdate(st)>>)

\* socket.on('start')
Start ==
    /\ Receives
    /\ IF ~CanStart(state)
       THEN Apply(Event("start", NoArg), state, timerInterval, timeouts, <<>>)
       ELSE LET st == [state EXCEPT !.status = "RUNNING", !.lastTick = now]
                arm == timerInterval = Null
            IN  /\ arm => FreeIds(timeouts) # {}
                /\ Apply(Event("start", NoArg), st,
                         IF arm THEN NewId(timeouts) ELSE timerInterval,
                         IF arm THEN SetTimeout(timeouts, now) ELSE timeouts,
                         <<TimerUpdate(st)>>)

\* pause that first subtracts the whole seconds elapsed since lastTick.
PauseCountsElapsed ==
    /\ Receives
    /\ LET st == [state EXCEPT !.status = "PAUSED",
                               !.timeLeft = state.timeLeft - Elapsed(now, state.lastTick)]
       IN  Apply(Event("pause", NoArg), st, Null,
                 ClearTimeout(timeouts, timerInterval), <<TimerUpdate(st)>>)

\* pause without its io.emit: the change is not announced.
PauseSilent ==
    /\ Receives
    /\ LET st == [state EXCEPT !.status = "PAUSED"]
       IN  Apply(Event("pause", NoArg), st, Null,
                 ClearTimeout(timeouts, timerInterval), <<>>)

\* pause without its clearTimer(): the tick stays scheduled.
PauseNoClear ==
    /\ Receives
    /\ LET st == [state EXCEPT !.status = "PAUSED"]
       IN  Apply(Event("pause", NoArg), st, timerInterval, timeouts, <<TimerUpdate(st)>>)

\* pause as a toggle: a second pause resumes.
PauseToggle ==
    /\ Receives
    /\ LET st == [state EXCEPT !.status = IF state.status = "PAUSED" THEN "RUNNING"
                                          ELSE "PAUSED"]
       IN  Apply(Event("pause", NoArg), st, Null,
                 ClearTimeout(timeouts, timerInterval), <<TimerUpdate(st)>>)

\* socket.on('pause')
Pause ==
    /\ Receives
    /\ LET st == [state EXCEPT !.status = "PAUSED"]
       IN  Apply(Event("pause", NoArg), st, Null,
                 ClearTimeout(timeouts, timerInterval), <<TimerUpdate(st)>>)

\* stop without its clearTimer(): the tick stays scheduled.
StopNoClear ==
    /\ Receives
    /\ LET st == [state EXCEPT !.status = "IDLE", !.timeLeft = 0]
       IN  Apply(Event("stop", NoArg), st, timerInterval, timeouts, <<TimerUpdate(st)>>)

\* socket.on('stop')
Stop ==
    /\ Receives
    /\ LET st == [state EXCEPT !.status = "IDLE", !.timeLeft = 0]
       IN  Apply(Event("stop", NoArg), st, Null,
                 ClearTimeout(timeouts, timerInterval), <<TimerUpdate(st)>>)

\* mode !== 'COUNT_UP' && mode !== 'STOP'
IsMode(p) == p.type = "string" /\ p.text \in {"COUNT_UP", "STOP"}

\* set-mode that also calls clearTimer().
SetModeClearsTimer(p) ==
    /\ Receives
    /\ IF ~IsMode(p)
       THEN Apply(Event("set-mode", p), state, timerInterval, timeouts, <<>>)
       ELSE LET st == [state EXCEPT !.overtimeMode = p.text]
            IN  Apply(Event("set-mode", p), st, Null,
                      ClearTimeout(timeouts, timerInterval), <<TimerUpdate(st)>>)

\* socket.on('set-mode')
SetMode(p) ==
    /\ Receives
    /\ IF ~IsMode(p)
       THEN Apply(Event("set-mode", p), state, timerInterval, timeouts, <<>>)
       ELSE LET st == [state EXCEPT !.overtimeMode = p.text]
            IN  Apply(Event("set-mode", p), st, timerInterval, timeouts,
                      <<TimerUpdate(st)>>)

\* set-and-start as set-time followed by start: an IDLE frame goes out first.
SetAndStartTwoFrames(st) ==
    <<TimerUpdate([st EXCEPT !.status = "IDLE"]), TimerUpdate(st)>>

\* The messages of socket.on('set-and-start') for the state st it leaves.
SetAndStartOut(st) == <<TimerUpdate(st)>>

\* socket.on('set-and-start')
SetAndStart(p) ==
    /\ Receives
    /\ IF ~IsFiniteNumber(p)
       THEN Apply(Event("set-and-start", p), state, timerInterval, timeouts, <<>>)
       ELSE LET st == [state EXCEPT !.timeLeft = Clamped(p), !.status = "RUNNING",
                                    !.lastTick = now]
                ts == ClearTimeout(timeouts, timerInterval)
            IN  /\ FreeIds(ts) # {}
                /\ Apply(Event("set-and-start", p), st, NewId(ts), SetTimeout(ts, now),
                         SetAndStartOut(st))

\* socket.on('shutdown'): the tick is cancelled and the clients are told; the
\* state object is not touched. The process exits 500 ms (and up to 2 s more)
\* later and serves events until then: a behaviour that ends there is one
\* that stutters.
Shutdown ==
    /\ Receives
    /\ Apply(Event("shutdown", NoArg), state, Null,
             ClearTimeout(timeouts, timerInterval),
             <<Msg("all", "server-shutdown", NoSnapshot)>>)

\* ------------------------------------------------------------------- tick

\* tick without its FINISHED transition: the countdown runs on below zero in
\* either mode.
TickStateNeverFinishes(st, t) ==
    LET elapsed == Elapsed(t, st.lastTick)
    IN  IF elapsed >= 1
        THEN [st EXCEPT !.timeLeft = st.timeLeft - elapsed, !.lastTick = t]
        ELSE st

\* tick that finishes at zero without looking at overtimeMode.
TickStateAlwaysFinishes(st, t) ==
    LET elapsed == Elapsed(t, st.lastTick)
        s1 == [st EXCEPT !.timeLeft = st.timeLeft - elapsed, !.lastTick = t]
    IN  IF elapsed >= 1
        THEN IF s1.timeLeft <= 0
             THEN [s1 EXCEPT !.status = "FINISHED", !.timeLeft = 0]
             ELSE s1
        ELSE st

\* tick that clamps what it counts to the range of set-time.
TickStateClamped(st, t) ==
    LET elapsed == Elapsed(t, st.lastTick)
        s1 == [st EXCEPT !.timeLeft = Max(MinSeconds, st.timeLeft - elapsed),
                         !.lastTick = t]
    IN  IF elapsed >= 1
        THEN IF s1.timeLeft <= 0 /\ s1.overtimeMode = "STOP"
             THEN [s1 EXCEPT !.status = "FINISHED", !.timeLeft = 0]
             ELSE s1
        ELSE st

\* tick that finishes without zeroing timeLeft.
TickStateFinishKeepsTime(st, t) ==
    LET elapsed == Elapsed(t, st.lastTick)
        s1 == [st EXCEPT !.timeLeft = st.timeLeft - elapsed, !.lastTick = t]
    IN  IF elapsed >= 1
        THEN IF s1.timeLeft <= 0 /\ s1.overtimeMode = "STOP"
             THEN [s1 EXCEPT !.status = "FINISHED"]
             ELSE s1
        ELSE st

\* tick without its lastTick = now: a second already counted is counted again.
TickStateKeepsLastTick(st, t) ==
    LET elapsed == Elapsed(t, st.lastTick)
        s1 == [st EXCEPT !.timeLeft = st.timeLeft - elapsed]
    IN  IF elapsed >= 1
        THEN IF s1.timeLeft <= 0 /\ s1.overtimeMode = "STOP"
             THEN [s1 EXCEPT !.status = "FINISHED", !.timeLeft = 0]
             ELSE s1
        ELSE st

\* The state tick leaves when it runs at clock t on a RUNNING state st.
TickState(st, t) ==
    LET elapsed == Elapsed(t, st.lastTick)
        s1 == [st EXCEPT !.timeLeft = st.timeLeft - elapsed, !.lastTick = t]
    IN  IF elapsed >= 1
        THEN IF s1.timeLeft <= 0 /\ s1.overtimeMode = "STOP"
             THEN [s1 EXCEPT !.status = "FINISHED", !.timeLeft = 0]
             ELSE s1
        ELSE st

\* tick emitting the state as it was before it counted.
TickOutStale(st, t) ==
    IF Elapsed(t, st.lastTick) >= 1 THEN <<TimerUpdate(st)>> ELSE <<>>

\* tick without its io.emit.
TickOutSilent(st, t) == <<>>

\* tick emitting on every run, counted or not.
TickOutAlways(st, t) == <<TimerUpdate(TickState(st, t))>>

\* What tick emits when it runs at clock t on a RUNNING state st.
TickOut(st, t) ==
    IF Elapsed(t, st.lastTick) >= 1 THEN <<TimerUpdate(TickState(st, t))>> ELSE <<>>

\* A due tick timeout fires: the event loop drops it and runs tick().
Tick(t) ==
    /\ t \in timeouts
    /\ t.due <= now
    /\ LET ts0 == timeouts \ {t}
           h0 == IF timerInterval = t.id THEN Stale ELSE timerInterval
       IN  IF state.status # "RUNNING"
           THEN Apply(Event("tick", NoArg), state, h0, ts0, <<>>)
           ELSE LET st == TickState(state, now)
                    finished == st.status = "FINISHED"
                    \* clearTimer() on the way to FINISHED
                    h1 == IF finished THEN Null ELSE h0
                    ts1 == IF finished THEN ClearTimeout(ts0, h0) ELSE ts0
                IN  IF st.status = "RUNNING"
                    THEN /\ FreeIds(ts1) # {}
                         /\ Apply(Event("tick", NoArg), st, NewId(ts1),
                                  SetTimeout(ts1, now), TickOut(state, now))
                    ELSE Apply(Event("tick", NoArg), st, h1, ts1, TickOut(state, now))

\* ---------------------------------------------------------- specification

\* The timer on its own: no tunnel is asked for and the messages in flight to
\* the clients are not followed.
TimerOnly == UNCHANGED <<tunnelVars, netVars, runVars>>

Next ==
    \/ Advance /\ TimerOnly
    \/ \E c \in Clients : Connect(c) /\ TimerOnly
    \/ \E c \in Clients : Disconnect(c) /\ TimerOnly
    \/ \E p \in SecondsPayloads : SetTime(p) /\ TimerOnly
    \/ Start /\ TimerOnly
    \/ Pause /\ TimerOnly
    \/ Stop /\ TimerOnly
    \/ \E p \in ModePayloads : SetMode(p) /\ TimerOnly
    \/ \E p \in SecondsPayloads : SetAndStart(p) /\ TimerOnly
    \/ Shutdown /\ TimerOnly
    \/ \E t \in timeouts : Tick(t) /\ TimerOnly

Spec == Init /\ [][Next]_vars

\* The timer left alone: once it is RUNNING (or FINISHED) no command arrives,
\* the process is not shut down, due ticks fire and the clock advances.
QuietNext ==
    \/ Advance /\ TimerOnly
    \/ \E c \in Clients : Connect(c) /\ TimerOnly
    \/ \E c \in Clients : Disconnect(c) /\ TimerOnly
    \/ /\ state.status \in {"IDLE", "PAUSED"}
       /\ TimerOnly
       /\ \/ \E p \in SecondsPayloads : SetTime(p)
          \/ Start
          \/ Pause
          \/ Stop
          \/ \E p \in ModePayloads : SetMode(p)
          \/ \E p \in SecondsPayloads : SetAndStart(p)
    \/ \E t \in timeouts : Tick(t) /\ TimerOnly

QuietSpec ==
    /\ Init
    /\ [][QuietNext]_vars
    /\ WF_vars(Advance /\ TimerOnly)
    /\ WF_vars(\E t \in timeouts : Tick(t) /\ TimerOnly)

\* ------------------------------------------------------------------ tunnel

\* socket.emit / io.emit('tunnel-status', {url, downloading, error}); url 0 is
\* null, and error stands for any error message.
TunnelStatus(to, url, downloading, error) ==
    [to |-> to, type |-> "tunnel-status", url |-> url,
     downloading |-> downloading, error |-> error]

\* io.emit('tunnel-download-progress', {downloaded, total})
DownloadProgressMsg == [to |-> "all", type |-> "tunnel-download-progress"]

FreeChildren == {k \in 1..MaxChildren : \A ch \in children : ch.id # k}
NewChild == CHOOSE k \in FreeChildren : \A j \in FreeChildren : k <= j
\* The button that emits start-tunnel is disabled while tunnelLoading: a socket
\* has at most one start-tunnel handler suspended.
MayRequest(c) == \A r \in requests : r.socket # c

\* spawn(cfPath, ...): child k, able to run (ok) or failing to start. watched
\* says that the exit listener of line 251 is attached.
Spawn(chs, k, ok) == chs \cup {[id |-> k, alive |-> ok, watched |-> FALSE]}

\* The trycloudflare.com address child k prints.
Url(k) == k

\* A start-tunnel handler suspended at `await ensureCloudflared(...)`.
Downloading(c) ==
    [socket |-> c, stage |-> "download", child |-> 0, deadline |-> 0]

\* A start-tunnel handler suspended at `await new Promise(...)` on child k, with
\* the 30 s timeout armed at clock t.
AwaitingUrl(c, k, t) ==
    [socket |-> c, stage |-> "url", child |-> k, deadline |-> t + TunnelTimeoutMs]

\* What a tunnel handler leaves behind.
TunnelApply(ev, at, chs, rqs, bin, msgs) ==
    /\ activeTunnel' = at
    /\ children' = chs
    /\ requests' = rqs
    /\ binary' = bin
    /\ out' = msgs
    /\ lastEvent' = ev
    /\ UNCHANGED <<state, timerInterval, timeouts, now, connected, lastBroadcast>>

\* socket.on('start-tunnel'), up to its first await that has to wait.
StartTunnel(c) ==
    /\ c \in connected
    /\ MayRequest(c)
    /\ LET ev == Event("start-tunnel", Str(c))
           busy == TunnelStatus(c, 0, TRUE, FALSE)
       IN  IF activeTunnel # NoTunnel
           THEN TunnelApply(ev, activeTunnel, children, requests, binary,
                            <<TunnelStatus(c, activeTunnel.url, FALSE, FALSE)>>)
           ELSE \/ /\ binary = "unsupported"
                   /\ TunnelApply(ev, activeTunnel, children, requests, binary,
                                  <<busy, TunnelStatus(c, 0, FALSE, TRUE)>>)
                \/ /\ binary = "absent"
                   /\ TunnelApply(ev, activeTunnel, children,
                                  requests \cup {Downloading(c)}, binary,
                                  <<busy, DownloadProgressMsg>>)
                \/ /\ binary \in {"present", "partial"}
                   /\ FreeChildren # {}
                   /\ TunnelApply(ev, activeTunnel,
                                  Spawn(children, NewChild, binary = "present"),
                                  requests \cup {AwaitingUrl(c, NewChild, now)},
                                  binary, <<busy>>)

\* res.on('data'): the file exists from here on, incomplete until 'finish'.
DownloadProgress(r) ==
    /\ r.stage = "download"
    /\ TunnelApply(Event("download-progress", NoArg), activeTunnel, children,
                   requests, IF binary = "absent" THEN "partial" ELSE binary,
                   <<DownloadProgressMsg>>)

\* ws 'finish': ensureCloudflared returns and the handler goes on to spawn.
DownloadDone(r) ==
    /\ r.stage = "download"
    /\ FreeChildren # {}
    /\ TunnelApply(Event("download-done", NoArg), activeTunnel,
                   Spawn(children, NewChild, TRUE),
                   (requests \ {r}) \cup {AwaitingUrl(r.socket, NewChild, now)},
                   "present", <<>>)

\* The download rejects (HTTP status, network or write error): catch.
DownloadFail(r) ==
    /\ r.stage = "download"
    /\ TunnelApply(Event("download-fail", NoArg), activeTunnel, children,
                   requests \ {r}, binary,
                   <<TunnelStatus(r.socket, 0, FALSE, TRUE)>>)

\* The child prints its URL: the promise resolves and the handler runs to its
\* end.
UrlArrives(r) ==
    /\ r.stage = "url"
    /\ \E ch \in children : ch.id = r.child /\ ch.alive
    /\ TunnelApply(Event("tunnel-open", NoArg),
                   [url |-> Url(r.child), child |-> r.child],
                   {IF ch.id = r.child THEN [ch EXCEPT !.watched = TRUE] ELSE ch :
                        ch \in children},
                   requests \ {r}, binary,
                   <<TunnelStatus("all", Url(r.child), FALSE, FALSE)>>)

\* The 30 s timeout fires: the promise rejects; the child is left as it is.
TunnelTimeout(r) ==
    /\ r.stage = "url"
    /\ now >= r.deadline
    /\ TunnelApply(Event("tunnel-timeout", NoArg), activeTunnel, children,
                   requests \ {r}, binary,
                   <<TunnelStatus(r.socket, 0, FALSE, TRUE)>>)

\* A cloudflared process ends by itself; its 'exit' event is still to come.
ChildDies(ch) ==
    /\ ch.alive
    /\ TunnelApply(lastEvent, activeTunnel,
                   (children \ {ch}) \cup {[ch EXCEPT !.alive = FALSE]},
                   requests, binary, out)

\* The 'exit' (or 'error') event of a child: the reject of lines 239-243 for a
\* handler still waiting on it, the listener of lines 251-255 if attached.
ChildExit(ch) ==
    /\ ~ch.alive
    /\ LET rq == {r \in requests : r.stage = "url" /\ r.child = ch.id}
           failed == IF rq = {} THEN <<>>
                     ELSE <<TunnelStatus((CHOOSE r \in rq : TRUE).socket, 0,
                                         FALSE, TRUE)>>
           closed == IF ch.watched THEN <<TunnelStatus("all", 0, FALSE, FALSE)>>
                     ELSE <<>>
       IN  TunnelApply(Event("child-exit", NoArg),
                       IF ch.watched THEN NoTunnel ELSE activeTunnel,
                       children \ {ch}, requests \ rq, binary,
                       closed \o failed)

\* stop-tunnel that also calls clearTimer().
StopTunnelClearsTimer(c) ==
    /\ c \in connected
    /\ activeTunnel' = NoTunnel
    /\ children' = {IF ch.id = activeTunnel.child THEN [ch EXCEPT !.alive = FALSE]
                    ELSE ch : ch \in children}
    /\ timerInterval' = Null
    /\ timeouts' = ClearTimeout(timeouts, timerInterval)
    /\ out' = IF activeTunnel # NoTunnel
              THEN <<TunnelStatus("all", 0, FALSE, FALSE)>> ELSE <<>>
    /\ lastEvent' = Event("stop-tunnel", Str(c))
    /\ UNCHANGED <<state, now, connected, lastBroadcast, requests, binary>>

\* socket.on('stop-tunnel')
StopTunnel(c) ==
    /\ c \in connected
    /\ IF activeTunnel = NoTunnel
       THEN TunnelApply(Event("stop-tunnel", Str(c)), activeTunnel, children,
                        requests, binary, <<>>)
       ELSE TunnelApply(Event("stop-tunnel", Str(c)), NoTunnel,
                        {IF ch.id = activeTunnel.child
                         THEN [ch EXCEPT !.alive = FALSE] ELSE ch : ch \in children},
                        requests, binary,
                        <<TunnelStatus("all", 0, FALSE, FALSE)>>)

\* Thirty seconds pass at once.
LongWait ==
    /\ now <= MaxNow
    /\ now' = now + TunnelTimeoutMs
    /\ UNCHANGED <<state, timerInterval, timeouts, connected, out, lastBroadcast,
                   lastEvent>>

\* The set-and-start payloads of a run that also uses the tunnel.
TunnelSeconds == {Num(2)}

TimerAndTunnel == UNCHANGED <<netVars, runVars>>
TimerBesideTunnel == UNCHANGED <<tunnelVars, netVars, runVars>>

\* A run that uses the tunnel: the clients stay connected, the clock moves only
\* by the thirty seconds of the tunnel timeout, and the timer is driven by
\* set-and-start, pause and its ticks.
TunnelNext ==
    \/ LongWait /\ TimerBesideTunnel
    \/ \E c \in Clients : Connect(c) /\ TimerBesideTunnel
    \/ \E p \in TunnelSeconds : SetAndStart(p) /\ TimerBesideTunnel
    \/ Pause /\ TimerBesideTunnel
    \/ \E t \in timeouts : Tick(t) /\ TimerBesideTunnel
    \/ \E c \in Clients : StartTunnel(c) /\ TimerAndTunnel
    \/ \E c \in Clients : StopTunnel(c) /\ TimerAndTunnel
    \/ \E r \in requests : DownloadProgress(r) /\ TimerAndTunnel
    \/ \E r \in requests : DownloadDone(r) /\ TimerAndTunnel
    \/ \E r \in requests : DownloadFail(r) /\ TimerAndTunnel
    \/ \E r \in requests : UrlArrives(r) /\ TimerAndTunnel
    \/ \E r \in requests : TunnelTimeout(r) /\ TimerAndTunnel
    \/ \E ch \in children : ChildDies(ch) /\ TimerAndTunnel
    \/ \E ch \in children : ChildExit(ch) /\ TimerAndTunnel

\* The binary is there, is missing with a download known for the platform, or
\* is missing on a platform CF_URLS has no entry for.
TunnelInit == \E b \in {"present", "absent", "unsupported"} : InitWith(b)

TunnelSpec == TunnelInit /\ [][TunnelNext]_vars

\* ---------------------------------------------------------------- delivery

\* An App that sets only timeLeft and status from a timer-update.
ShownWithoutMode(s) ==
    [timeLeft |-> s.timeLeft, status |-> s.status, overtimeMode |-> "COUNT_UP"]

\* What App's socket.on('timer-update') takes from a snapshot: setTimeLeft,
\* setStatus, setOvertimeMode.
Shown(s) ==
    [timeLeft |-> s.timeLeft, status |-> s.status, overtimeMode |-> s.overtimeMode]

\* The snapshots among msgs that go to client c: those emitted to its socket
\* and those emitted to all.
Snapshots(msgs, c) ==
    LET Mine(m) == m.type = "timer-update" /\ m.to \in {"all", c}
        mine == SelectSeq(msgs, Mine)
    IN  [i \in 1..Len(mine) |-> mine[i].state]

Broadcasts(msgs) == Snapshots(msgs, "all")

\* The messages of the handler that has just run travel to the sockets that
\* are open, each socket an ordered reliable channel; the state the handler
\* leaves is recorded if it changed it or broadcast it, and a socket that has
\* just opened starts its count at that state.
Carried ==
    /\ inbox' = [c \in Clients |->
                    IF c \in connected' THEN inbox[c] \o Snapshots(out', c)
                    ELSE <<>>]
    /\ log' = IF state' # state \/ Broadcasts(out') # <<>> THEN Append(log, state')
              ELSE log
    /\ since' = [c \in Clients |->
                    IF c \in connected' \ connected THEN Len(log') ELSE since[c]]
    /\ got' = [c \in Clients |->
                    IF c \in connected' \ connected THEN 0 ELSE got[c]]
    /\ UNCHANGED <<view, tunnelVars, runVars>>

\* A closed socket loses what was in flight to it; the App keeps its display.
Dropped(c) ==
    /\ inbox' = [inbox EXCEPT ![c] = <<>>]
    /\ since' = [since EXCEPT ![c] = 0]
    /\ got' = [got EXCEPT ![c] = 0]
    /\ UNCHANGED <<view, log, tunnelVars, runVars>>

\* App's socket.on('timer-update') for the oldest snapshot in flight to c.
Deliver(c) ==
    /\ c \in connected
    /\ inbox[c] # <<>>
    /\ view' = [view EXCEPT ![c] = Shown(Head(inbox[c]))]
    /\ inbox' = [inbox EXCEPT ![c] = Tail(inbox[c])]
    /\ got' = [got EXCEPT ![c] = got[c] + 1]
    /\ UNCHANGED <<coreVars, tunnelVars, log, since, runVars>>

\* The payloads of a run whose deliveries are followed.
NetSeconds == {Num(2)}
NetModes == {Str("STOP")}

NetCommand ==
    \/ \E p \in NetSeconds : SetAndStart(p) /\ Carried
    \/ Pause /\ Carried
    \/ \E p \in NetModes : SetMode(p) /\ Carried

\* A run whose deliveries are followed, for MaxLog recorded states: the clock
\* is observed only while a tick is scheduled, and once MaxLog states have been
\* recorded the server only accepts new sockets while the clients catch up.
NetNext ==
    \/ Len(log) <= MaxLog /\ timeouts # {} /\ Advance
          /\ UNCHANGED <<netVars, tunnelVars, runVars>>
    \/ \E c \in Clients : Connect(c) /\ Carried
    \/ Len(log) <= MaxLog /\ \E c \in Clients : Disconnect(c) /\ Dropped(c)
    \/ Len(log) <= MaxLog /\ NetCommand
    \/ Len(log) <= MaxLog /\ \E t \in timeouts : Tick(t) /\ Carried
    \/ \E c \in Clients : Deliver(c)

NetSpec == Init /\ [][NetNext]_vars

\* Every message in flight on an open socket is delivered in the end.
NetFairSpec == NetSpec /\ \A c \in Clients : WF_vars(Deliver(c))

\* ------------------------------------------------------------ one period

\* Counting ticks told apart within a RUNNING period: none, the first, later ones.
MaxCounted == 2

\* What is known of the RUNNING period after a handler has run: a handler that
\* makes the timer RUNNING opens a period at its Date.now() with the timeLeft
\* it leaves (by: the event, from: the status before, gap: the time since the
\* previous lastTick), a tick
\* that moves lastTick has counted, and a handler that leaves RUNNING ends it.
RunAfter ==
    IF state'.status # "RUNNING" THEN NoRun
    ELSE IF state.status # "RUNNING"
    THEN [t0 |-> now, n |-> state'.timeLeft, counted |-> 0,
          by |-> lastEvent'.name, from |-> state.status,
          gap |-> now - state.lastTick]
    ELSE IF state'.lastTick # state.lastTick
    THEN [run EXCEPT !.counted = Min(run.counted + 1, MaxCounted)]
    ELSE run

Tracked == run' = RunAfter /\ UNCHANGED <<tunnelVars, netVars>>

\* The timer left alone once it is RUNNING, as in QuietNext, with the RUNNING
\* period followed.
RunNext ==
    \/ Advance /\ TimerOnly
    \/ \E c \in Clients : Connect(c) /\ TimerOnly
    \/ \E c \in Clients : Disconnect(c) /\ TimerOnly
    \/ /\ state.status \in {"IDLE", "PAUSED"}
       /\ \/ \E p \in SecondsPayloads : SetTime(p)
          \/ Start
          \/ Pause
          \/ Stop
          \/ \E p \in ModePayloads : SetMode(p)
          \/ \E p \in SecondsPayloads : SetAndStart(p)
       /\ Tracked
    \/ \E t \in timeouts : Tick(t) /\ Tracked

RunSpec == Init /\ [][RunNext]_vars

\* -------------------------------------------------------- from 00:00 idle

\* The timer from its initial IDLE at 00:00, driven only by start, pause and
\* set-mode.
ZeroNext ==
    \/ Advance /\ TimerOnly
    \/ \E c \in Clients : Connect(c) /\ TimerOnly
    \/ \E c \in Clients : Disconnect(c) /\ TimerOnly
    \/ Start /\ TimerOnly
    \/ Pause /\ TimerOnly
    \/ \E p \in ModePayloads : SetMode(p) /\ TimerOnly
    \/ \E t \in timeouts : Tick(t) /\ TimerOnly

ZeroSpec == Init /\ [][ZeroNext]_vars

\* ------------------------------------------------------ wall clock steps

\* The wall clock Date.now() reads is set back by half a second. The timeouts
\* run on the event loop's monotonic clock: each keeps the delay it has left,
\* and one that is due stays due.
ClockBack ==
    /\ now >= Quantum
    /\ now' = now - Quantum
    /\ timeouts' = {[t EXCEPT !.due = Max(t.due, now) - Quantum] : t \in timeouts}
    /\ UNCHANGED <<state, timerInterval, connected, out, lastBroadcast, lastEvent>>

\* The payloads of a run whose wall clock is set back: 1 and 6000.
SkewSeconds == {Num(2), Num(12000)}

\* The timer under a wall clock that can be set back. start is left out: with
\* it a countdown paused and resumed over and over would count without end.
SkewNext ==
    \/ Advance /\ TimerOnly
    \/ ClockBack /\ TimerOnly
    \/ \E c \in Clients : Connect(c) /\ TimerOnly
    \/ \E p \in SkewSeconds : SetTime(p) /\ TimerOnly
    \/ Pause /\ TimerOnly
    \/ \E p \in ModePayloads : SetMode(p) /\ TimerOnly
    \/ \E p \in SkewSeconds : SetAndStart(p) /\ TimerOnly
    \/ \E t \in timeouts : Tick(t) /\ TimerOnly

SkewSpec == Init /\ [][SkewNext]_vars

\* ------------------------------------------------------------ App clients

\* The messages of the handler that has just run travel to the open sockets;
\* nothing is recorded of them.
Posted ==
    /\ inbox' = [c \in Clients |->
                    IF c \in connected' THEN inbox[c] \o Snapshots(out', c)
                    ELSE <<>>]
    /\ UNCHANGED <<view, log, since, got, tunnelVars, runVars>>

\* Every open socket can take one more snapshot.
Room == \A c \in connected : Len(inbox[c]) < MaxInbox

\* App's socket.on('timer-update') for the oldest snapshot in flight to c.
Show(c) ==
    /\ c \in connected
    /\ inbox[c] # <<>>
    /\ view' = [view EXCEPT ![c] = Shown(Head(inbox[c]))]
    /\ inbox' = [inbox EXCEPT ![c] = Tail(inbox[c])]
    /\ UNCHANGED <<coreVars, tunnelVars, log, since, got, runVars>>

\* Space or Enter with an empty input buffer in the App of c: what is sent
\* depends on the status the App shows, and the server serves it.
Toggle(c) ==
    /\ c \in connected
    /\ CASE view[c].status = "IDLE" -> Start
         [] view[c].status = "RUNNING" -> Pause
         [] view[c].status = "PAUSED" -> Start
         [] view[c].status = "FINISHED" -> Stop

\* The Pause button of Controls, rendered only while the App shows RUNNING.
PauseButton(c) ==
    /\ c \in connected
    /\ view[c].status = "RUNNING"
    /\ Pause

\* The server with Apps as its clients: pause is sent only by the toggle and by
\* the Pause button; Escape sends stop, Enter with digits typed set-and-start
\* and the mode switch set-mode from any App that is connected.
AppNext ==
    \/ timeouts # {} /\ Advance /\ UNCHANGED <<netVars, tunnelVars, runVars>>
    \/ \E c \in Clients : Connect(c) /\ Posted
    \/ \E c \in Clients : Show(c)
    \/ Room /\ \E c \in Clients : Toggle(c) /\ Posted
    \/ Room /\ \E c \in Clients : PauseButton(c) /\ Posted
    \/ Room /\ Stop /\ Posted
    \/ Room /\ \E p \in NetSeconds : SetAndStart(p) /\ Posted
    \/ Room /\ \E p \in NetModes : SetMode(p) /\ Posted
    \/ Room /\ \E t \in timeouts : Tick(t) /\ Posted

AppSpec == Init /\ [][AppNext]_vars

\* ------------------------------------------------------------ claim helpers

TickPending == \E t \in timeouts : t.id = timerInterval
NoTick == timerInterval = Null /\ timeouts = {}

\* The last handler was a successful start or set-and-start and nothing has
\* run since.
JustStarted ==
    /\ lastEvent.name \in {"start", "set-and-start"}
    /\ state.status = "RUNNING"
    /\ out # <<>>

\* The observed clock leaves room for n more whole seconds to be counted from
\* lastTick: a tick that counts drops the fraction of a second it saw, at most
\* MsPerSec - Quantum, so a counted second costs at most 2 * MsPerSec - Quantum.
HasRoom(n) == state.lastTick + n * (2 * MsPerSec - Quantum) <= MaxNow

\* ------------------------------------------------------------------ claims

\* C1: for every integer s, from every reachable state, set-time(s) leaves
\* timeLeft = max(-5999, min(5999, s)) and status IDLE with no tick scheduled.
C1_SetTimeClamps ==
    (lastEvent.name = "set-time" /\ IsInteger(lastEvent.arg)) =>
        /\ state.timeLeft = Max(-5999, Min(5999, lastEvent.arg.halves \div 2))
        /\ state.status = "IDLE"
        /\ NoTick

C1_Witness ==
    /\ lastEvent = Event("set-time", Num(12000))
    /\ state.timeLeft = 5999
    /\ state.lastTick > 0

\* C2 as stated: set-and-start(s) with a finite number s emits exactly one
\* timer-update, whose snapshot is RUNNING with timeLeft = clamp(s, -5999, 5999)
\* (no rounding), and no IDLE snapshot goes out.
C2_Original ==
    (lastEvent.name = "set-and-start" /\ IsFiniteNumber(lastEvent.arg)) =>
        /\ out = <<TimerUpdate(state)>>
        /\ state.status = "RUNNING"
        /\ 2 * state.timeLeft = Max(2 * (-5999), Min(2 * 5999, lastEvent.arg.halves))

\* C2 amended: set-and-start(s) with a finite number s emits exactly one
\* timer-update, whose snapshot is RUNNING with timeLeft =
\* clamp(round(s), -5999, 5999); no other snapshot (so none with status IDLE)
\* goes out in the handler.
C2_SetAndStartOneFrame ==
    (lastEvent.name = "set-and-start" /\ IsFiniteNumber(lastEvent.arg)) =>
        /\ out = <<TimerUpdate(state)>>
        /\ lastBroadcast = state
        /\ state.status = "RUNNING"
        /\ state.timeLeft = Max(-5999, Min(5999, MathRound(lastEvent.arg.halves)))
        /\ \A i \in 1..Len(out) : out[i].state.status # "IDLE"

C2_Witness ==
    /\ lastEvent = Event("set-and-start", Num(3))
    /\ state.timeLeft = 2
    /\ out = <<TimerUpdate(state)>>

\* C3: start is a no-op whenever its precondition fails (status RUNNING, or
\* timeLeft 0 with a status other than PAUSED): the state object, the tick
\* schedule are unchanged and no timer-update is broadcast.
C3_StartNoOp ==
    [][(Start /\ (state.status = "RUNNING"
                  \/ (state.timeLeft = 0 /\ state.status # "PAUSED")))
        => (UNCHANGED <<state, timerInterval, timeouts, lastBroadcast>> /\ out' = <<>>)]_vars

C3_Witness ==
    /\ lastEvent.name = "start"
    /\ out = <<>>
    /\ state.status = "IDLE"
    /\ state.timeLeft = 0

\* C4: pause is idempotent: a pause applied right after a pause (no other
\* handler between, whatever time passed) leaves the state object and the
\* tick schedule (none) as the first pause left them.
C4_PauseIdempotent ==
    [][(lastEvent.name = "pause" /\ Pause)
        => (UNCHANGED <<state, timerInterval, timeouts>> /\ NoTick')]_vars

C4_Witness ==
    /\ lastEvent.name = "pause"
    /\ state.status = "PAUSED"
    /\ NoTick
    /\ state.timeLeft # 0
    /\ state.lastTick < now

\* C5: from every reachable state, stop leaves timeLeft 0 and status IDLE with
\* no tick scheduled, and overtimeMode as it was.
C5_StopResets ==
    [][Stop => /\ state'.timeLeft = 0
               /\ state'.status = "IDLE"
               /\ NoTick'
               /\ state'.overtimeMode = state.overtimeMode]_vars

C5_Witness ==
    /\ lastEvent.name = "stop"
    /\ state.overtimeMode = "STOP"
    /\ state.status = "IDLE"
    /\ state.lastTick > 0

\* C6: overtime STOP. A timer started with timeLeft > 0 in STOP mode and left
\* alone reaches, under fair tick firing and an advancing clock, status
\* FINISHED with timeLeft 0 and no tick scheduled, and stays there; once
\* FINISHED, nothing changes the state object or the tick schedule.
C6_OvertimeStopFinishes ==
    /\ (JustStarted /\ state.overtimeMode = "STOP" /\ state.timeLeft > 0
            /\ HasRoom(state.timeLeft))
         ~> [](state.status = "FINISHED" /\ state.timeLeft = 0 /\ NoTick)
    /\ [][state.status = "FINISHED" => UNCHANGED <<state, timerInterval, timeouts>>]_vars

C6_Witness ==
    /\ state.status = "FINISHED"
    /\ state.timeLeft = 0
    /\ NoTick
    /\ lastEvent.name = "tick"
    /\ state.lastTick >= 2 * MsPerSec

\* C7: overtime COUNT_UP. A timer started with timeLeft > 0 in COUNT_UP mode
\* and left alone stays RUNNING with a tick scheduled through every tick, and
\* timeLeft eventually becomes negative.
C7_OvertimeCountsUp ==
    /\ (JustStarted /\ state.overtimeMode = "COUNT_UP" /\ state.timeLeft > 0
            /\ HasRoom(state.timeLeft + 1))
         ~> (state.timeLeft < 0 /\ state.status = "RUNNING" /\ TickPending)
    /\ [][(state.status = "RUNNING" /\ state.overtimeMode = "COUNT_UP"
            /\ \E t \in timeouts : Tick(t))
          => (state'.status = "RUNNING" /\ TickPending'
              /\ state'.timeLeft <= state.timeLeft)]_vars

C7_Witness ==
    /\ state.status = "RUNNING"
    /\ state.overtimeMode = "COUNT_UP"
    /\ state.timeLeft < 0
    /\ lastEvent.name = "tick"
    /\ out = <<TimerUpdate(state)>>
    /\ TickPending

\* C8: once a timer-update has been broadcast the state object never differs
\* from the last broadcast snapshot (all four fields), so the timer-update a
\* connecting client gets first equals the most recent broadcast.
C8_LateJoinerSnapshot ==
    lastBroadcast # NoSnapshot =>
        /\ state = lastBroadcast
        /\ lastEvent.name = "connection" =>
               /\ out[1].type = "timer-update"
               /\ out[1].state = lastBroadcast

C8_Witness ==
    /\ lastEvent.name = "connection"
    /\ lastBroadcast.status = "FINISHED"
    /\ out[1].state = lastBroadcast
    /\ Cardinality(connected) = 2

\* C9: between handlers, after any sequence of commands (shutdown included)
\* and ticks, status RUNNING implies a tick timeout is pending and any other
\* status implies none is.
C9_RunningIffTick ==
    /\ state.status = "RUNNING" => timeouts # {}
    /\ state.status # "RUNNING" => timeouts = {}

\* C10: no reachable state between handlers has overtimeMode STOP,
\* timeLeft <= 0 and status RUNNING together.
C10_NoExhaustedRunningStop ==
    ~(state.overtimeMode = "STOP" /\ state.timeLeft <= 0 /\ state.status = "RUNNING")

\* C11: at most one tick timeout is pending at any time, whatever sequence of
\* start, set-and-start, pause, stop, set-time, shutdown and tick firings ran
\* (start or set-and-start while RUNNING included), and it is the one
\* timerInterval refers to.
C11_OneTickStream ==
    /\ Cardinality(timeouts) <= 1
    /\ \A t \in timeouts : t.id = timerInterval

C11_Witness ==
    /\ lastEvent.name = "set-and-start"
    /\ Cardinality(timeouts) = 1
    /\ \E t \in timeouts : t.due = now + TickDelay
    /\ state.lastTick > 0
    /\ lastBroadcast.status = "RUNNING"

\* C12: after pause, stop or the tick's transition to FINISHED no tick is
\* pending, so no tick fires outside RUNNING: a tick step starts from RUNNING
\* and leaves RUNNING or FINISHED, and never turns a stopped timer on.
C12_NoStaleTick ==
    /\ [](state.status \in {"PAUSED", "IDLE", "FINISHED"} => timeouts = {})
    /\ [][(\E t \in timeouts : Tick(t))
          => (state.status = "RUNNING" /\ state'.status \in {"RUNNING", "FINISHED"})]_vars
    /\ [][(state.status # "RUNNING" /\ state' # state)
          => lastEvent'.name \in {"set-time", "start", "pause", "stop", "set-mode",
                                  "set-and-start"}]_vars

C12_Witness ==
    /\ lastEvent.name = "pause"
    /\ state.status = "PAUSED"
    /\ now >= state.lastTick + 2 * MsPerSec
    /\ state.timeLeft > 0
    /\ timeouts = {}

\* C13: every step that changes a field of the state object emits, in the
\* same step, exactly one timer-update to all clients, carrying the complete
\* state as the step leaves it.
C13_BroadcastOnChange ==
    [][state' # state => (out' = <<TimerUpdate(state')>> /\ lastBroadcast' = state')]_vars

C13_Witness ==
    /\ lastEvent.name = "tick"
    /\ out = <<TimerUpdate(state)>>
    /\ state.status = "RUNNING"
    /\ state.timeLeft = 0

\* C14: a set-time or set-and-start whose payload is no finite number, and a
\* set-mode whose payload is neither COUNT_UP nor STOP, changes neither the
\* state object nor the tick schedule and emits nothing.
C14_InvalidPayloadDropped ==
    [][(\/ \E p \in SecondsPayloads :
              /\ ~(p.type = "number" /\ p.finite)
              /\ (SetTime(p) \/ SetAndStart(p))
        \/ \E p \in ModePayloads :
              /\ ~(p.type = "string" /\ p.text \in {"COUNT_UP", "STOP"})
              /\ SetMode(p))
       => (UNCHANGED <<state, timerInterval, timeouts, lastBroadcast>> /\ out' = <<>>)]_vars

C14_Witness ==
    /\ lastEvent = Event("set-and-start", NaNValue)
    /\ out = <<>>
    /\ state.status = "PAUSED"

\* C15: FINISHED is terminal except via stop, set-time or set-and-start: from
\* FINISHED, start, pause, set-mode and tick leave status FINISHED.
C15_FinishedTerminal ==
    [][(state.status = "FINISHED"
        /\ (Start \/ Pause \/ (\E p \in ModePayloads : SetMode(p))
            \/ \E t \in timeouts : Tick(t)))
       => state'.status = "FINISHED"]_vars


\* The steps of the tunnel: its two commands, the completions of a suspended
\* start-tunnel handler and the events of the cloudflared processes.
TunnelStep ==
    \/ \E c \in Clients : StartTunnel(c)
    \/ \E c \in Clients : StopTunnel(c)
    \/ \E r \in requests :
          \/ DownloadProgress(r)
          \/ DownloadDone(r)
          \/ DownloadFail(r)
          \/ UrlArrives(r)
          \/ TunnelTimeout(r)
    \/ \E ch \in children : ChildDies(ch) \/ ChildExit(ch)

Running == {ch \in children : ch.alive}

\* C18: at most one cloudflared process is running at any time, and while a
\* tunnel is active the only process running is the one activeTunnel refers to.
C18_OneTunnelProcess ==
    /\ Cardinality(Running) <= 1
    /\ activeTunnel # NoTunnel => \A ch \in Running : ch.id = activeTunnel.child

\* C19: no step of the tunnel (start-tunnel and stop-tunnel in every outcome:
\* success, download failure, timeout, process exit) changes the timer state,
\* the handle or the scheduled tick, and while a start-tunnel handler is
\* suspended the server still serves set-and-start and pause from a connected
\* client and runs a tick that is due.
C19_TunnelLeavesTimer ==
    /\ [][TunnelStep => UNCHANGED <<state, timerInterval, timeouts, lastBroadcast>>]_vars
    /\ []((requests # {} /\ connected # {}) =>
              /\ ENABLED (Pause /\ TimerBesideTunnel)
              /\ ENABLED (\E p \in TunnelSeconds : SetAndStart(p) /\ TimerBesideTunnel))
    /\ []((requests # {} /\ \E t \in timeouts : t.due <= now) =>
              ENABLED (\E t \in timeouts : Tick(t) /\ TimerBesideTunnel))

\* The 30 s timeout of a start-tunnel has just fired while the timer, started
\* before the wait, has counted into overtime and still has its tick scheduled.
C19_Witness ==
    /\ lastEvent.name = "tunnel-timeout"
    /\ state.status = "RUNNING"
    /\ state.timeLeft < 0
    /\ TickPending
    /\ \E i \in 1..Len(out) : out[i].type = "tunnel-status" /\ out[i].error

\* C20: a client that connects while a tunnel is active is sent the tunnel's URL
\* by the connection handler.
C20_ConnectLearnsTunnel ==
    (lastEvent.name = "connection" /\ activeTunnel # NoTunnel) =>
        \E i \in 1..Len(out) :
            out[i].type = "tunnel-status" /\ out[i].url = activeTunnel.url


\* The place in log of the state the next snapshot delivered to c carries.
NextFor(c) == since[c] + got[c]

\* C16: on every open socket, what the client has received and what is still
\* in flight to it are together the recorded sequence of server states from
\* the snapshot sent on connect up to the current state, in order and without
\* a gap: the snapshots in flight are the recorded states not yet delivered
\* and the client displays the last one delivered. Two clients whose sockets
\* opened at the same recorded state and that have received equally many
\* snapshots have received the same ones.
C16_SnapshotsFollowLog ==
    /\ log[Len(log)] = state
    /\ \A c \in connected :
        /\ NextFor(c) + Len(inbox[c]) = Len(log) + 1
        /\ \A i \in 1..Len(inbox[c]) : inbox[c][i] = log[NextFor(c) + i - 1]
        /\ got[c] > 0 => view[c] = Shown(log[NextFor(c) - 1])
    /\ \A c, d \in connected :
        (since[c] = since[d] /\ got[c] = got[d] /\ got[c] > 0) =>
            (view[c] = view[d] /\ inbox[c] = inbox[d])

\* Two clients joined at different states; the later one has received its
\* connect snapshot and the next one, made by a tick, is in flight to both.
C16_Witness ==
    /\ connected = Clients
    /\ since["c1"] < since["c2"]
    /\ got["c2"] = 1
    /\ Len(inbox["c2"]) = 1
    /\ Len(inbox["c1"]) >= 2
    /\ lastEvent.name = "tick"

\* Client c displays the server's timeLeft, status and overtimeMode.
Consistent(c) ==
    /\ view[c].timeLeft = state.timeLeft
    /\ view[c].status = state.status
    /\ view[c].overtimeMode = state.overtimeMode

\* C17: if from some point on client c stays connected, the timer is not
\* RUNNING and no command is served, then from some point on c displays the
\* server's timeLeft, status and overtimeMode.
C17_EventuallyConsistent ==
    \A c \in Clients :
        (<>[](c \in connected /\ state.status # "RUNNING") /\ <>[][~NetCommand]_vars)
            => <>[]Consistent(c)

\* A client that connected after the last command displays the paused timer in
\* STOP mode, with nothing left in flight to it.
C17_Witness ==
    /\ "c2" \in connected
    /\ since["c2"] = Len(log)
    /\ Len(log) > MaxLog
    /\ inbox["c2"] = <<>>
    /\ state.status = "PAUSED"
    /\ state.overtimeMode = "STOP"
    /\ Consistent("c2")
    /\ ~Consistent("c1")


\* C21: in a RUNNING period in COUNT_UP mode that started at t0 with timeLeft n
\* and met no command, after a tick that counted at time t the seconds counted
\* are the whole seconds since t0: n - timeLeft = floor((t - t0) / 1000),
\* however many ticks fired and whenever.
C21_CountsWholeSecondsSinceStart ==
    (state.status = "RUNNING" /\ state.overtimeMode = "COUNT_UP" /\ run.counted >= 1)
        => run.n - state.timeLeft = (state.lastTick - run.t0) \div MsPerSec


\* C22: from the initial IDLE at 00:00, no sequence of start, pause and
\* set-mode commands makes the timer RUNNING.
C22_IdleZeroNeverRuns == state.status # "RUNNING"

\* A tick runs on a RUNNING timer.
TickRuns == state.status = "RUNNING" /\ \E t \in timeouts : Tick(t)

\* C23: a tick that sees less than one whole second since lastTick leaves the
\* state object as it is and emits nothing; it only re-arms the next tick,
\* TickDelay from now.
C23_SubSecondTickIsSilent ==
    [][(TickRuns /\ Elapsed(now, state.lastTick) < 1) =>
          /\ state' = state
          /\ out' = <<>>
          /\ lastBroadcast' = lastBroadcast
          /\ timeouts' = {[id |-> timerInterval', due |-> now + TickDelay]}]_vars

\* A tick has run half a second after the last counted second: nothing was
\* emitted and the next tick is armed.
C23_Witness ==
    /\ lastEvent.name = "tick"
    /\ state.status = "RUNNING"
    /\ now = state.lastTick + Quantum
    /\ state.lastTick > 0
    /\ out = <<>>
    /\ \E t \in timeouts : t.id = timerInterval /\ t.due = now + TickDelay

\* C24: pause, from any status, sets status PAUSED, cancels the tick and
\* changes neither timeLeft nor overtimeMode nor lastTick: time elapsed since
\* the last counted second is not subtracted.
C24_PauseKeepsTimeLeft ==
    [][Pause =>
          /\ state' = [state EXCEPT !.status = "PAUSED"]
          /\ timerInterval' = Null
          /\ timeouts' = {}
          /\ out' = <<TimerUpdate(state')>>]_vars

\* pause has just been served a second and a half after the last counted
\* second of a countdown that had counted before: timeLeft is what that tick
\* left.
C24_Witness ==
    /\ lastEvent.name = "pause"
    /\ state.status = "PAUSED"
    /\ state.lastTick > 0
    /\ now = state.lastTick + MsPerSec + Quantum
    /\ state.timeLeft = 0
    /\ lastBroadcast = state

\* C25: a start that makes the timer RUNNING sets lastTick to the current
\* time, and the first tick that counts after it counts the whole seconds
\* since that start, whatever time went by in PAUSED or IDLE before.
C25_StartResetsLastTick ==
    /\ [][(Start /\ state.status # "RUNNING" /\ state'.status = "RUNNING") =>
              state'.lastTick = now]_vars
    /\ []((state.status = "RUNNING" /\ run.by = "start" /\ run.counted = 1) =>
              run.n - state.timeLeft = (state.lastTick - run.t0) \div MsPerSec)

\* A timer paused for two seconds or more was started again and its first
\* counting tick took one second off.
C25_Witness ==
    /\ run.by = "start"
    /\ run.from = "PAUSED"
    /\ run.gap >= 2 * MsPerSec
    /\ run.counted = 1
    /\ lastEvent.name = "tick"
    /\ state.status = "RUNNING"
    /\ state.timeLeft = run.n - 1

\* C26: set-mode with COUNT_UP or STOP changes overtimeMode and nothing else:
\* timeLeft, status, lastTick, the handle and the scheduled tick stay, and one
\* timer-update with the new state is broadcast.
C26_SetModeOnlyMode ==
    [][\A p \in ModePayloads :
          (IsMode(p) /\ SetMode(p)) =>
              /\ state' = [state EXCEPT !.overtimeMode = p.text]
              /\ UNCHANGED <<timerInterval, timeouts>>
              /\ out' = <<TimerUpdate(state')>>]_vars

\* set-mode('STOP') has just been served on a running countdown whose tick is
\* still scheduled.
C26_Witness ==
    /\ lastEvent = Event("set-mode", Str("STOP"))
    /\ state.status = "RUNNING"
    /\ state.overtimeMode = "STOP"
    /\ state.timeLeft > 0
    /\ TickPending
    /\ out = <<TimerUpdate(state)>>

\* C27: a counting tick in COUNT_UP mode subtracts the whole seconds elapsed
\* without clamping, so timeLeft goes below -5999.
C27_TickNotClamped ==
    [][(TickRuns /\ state.overtimeMode = "COUNT_UP"
            /\ Elapsed(now, state.lastTick) >= 1) =>
          state'.timeLeft = state.timeLeft - Elapsed(now, state.lastTick)]_vars

\* A tick has just counted below the lower limit of set-time.
C27_Witness ==
    /\ lastEvent.name = "tick"
    /\ state.status = "RUNNING"
    /\ state.timeLeft < MinSeconds


\* A message that reports an error: tunnel-status is the only event with an
\* error field.
IsError(m) == m.type = "tunnel-status" /\ m.error

\* C28: every error the server emits is a tunnel-status with url null sent to
\* the one client whose start-tunnel failed (unsupported platform, download
\* error, process error or exit, 30 s timeout), and it leaves activeTunnel
\* null; no timer command emits an error.
C28_OnlyTunnelErrors ==
    \A i \in 1..Len(out) :
        IsError(out[i]) =>
            /\ lastEvent.name \in {"start-tunnel", "download-fail", "child-exit",
                                   "tunnel-timeout"}
            /\ out[i].url = 0
            /\ out[i].to \in Clients
            /\ activeTunnel = NoTunnel

\* C29: a FINISHED timer has timeLeft 0: only a tick makes the timer FINISHED
\* and it zeroes timeLeft, and a step that changes the timeLeft of a FINISHED
\* timer leaves FINISHED.
C29_FinishedAtZero ==
    /\ [](state.status = "FINISHED" => state.timeLeft = 0)
    /\ [][(state.status # "FINISHED" /\ state'.status = "FINISHED") =>
              (lastEvent'.name = "tick" /\ state'.timeLeft = 0)]_vars
    /\ [][(state.status = "FINISHED" /\ state'.timeLeft # state.timeLeft) =>
              state'.status # "FINISHED"]_vars

\* A tick that saw two seconds or more at once has just finished the timer.
C29_Witness ==
    /\ lastEvent.name = "tick"
    /\ state.status = "FINISHED"
    /\ state.timeLeft = 0
    /\ lastBroadcast = state
    /\ NoTick

\* C30: a tick never increases timeLeft and never moves lastTick back, also
\* when the clock it reads is earlier than lastTick, and timeLeft never
\* exceeds 5999.
C30_TickNeverCountsUp ==
    /\ [][(\E t \in timeouts : Tick(t)) =>
              (state'.timeLeft <= state.timeLeft /\ state'.lastTick >= state.lastTick)]_vars
    /\ [](state.timeLeft <= MaxSeconds)


\* C31: when pause is sent only by Apps that show RUNNING, the server never
\* serves a pause while its own status is FINISHED or IDLE.
C31_NoPauseWhenDone ==
    [][Pause => state.status \notin {"FINISHED", "IDLE"}]_vars


\* C32: while activeTunnel is set the exit event of its process has not been
\* served, and the exit event of a process clears activeTunnel and broadcasts
\* tunnel-status with url null only if activeTunnel refers to that process:
\* the late exit of a tunnel killed by stop-tunnel leaves a newer tunnel alone.
C32_ExitClearsOwnSession ==
    /\ [](activeTunnel # NoTunnel => \E ch \in children : ch.id = activeTunnel.child)
    /\ [][\A ch \in children :
             (ChildExit(ch) /\ activeTunnel # NoTunnel /\ activeTunnel.child # ch.id) =>
                 /\ activeTunnel' = activeTunnel
                 /\ \A i \in 1..Len(out') :
                        ~(out'[i].type = "tunnel-status" /\ out'[i].to = "all")]_vars

\* C33: in a RUNNING period in COUNT_UP mode that started at t0 with timeLeft n
\* and met no command, under a clock that never goes back, the seconds counted
\* never exceed the whole seconds elapsed: n - timeLeft <= floor((now - t0) / 1000).
C33_NeverRunsFast ==
    (state.status = "RUNNING" /\ state.overtimeMode = "COUNT_UP" /\ run.by # "none")
        => run.n - state.timeLeft <= (now - run.t0) \div MsPerSec

\* Two ticks have counted in a period of exactly two seconds: two seconds are
\* off, all the time elapsed.
C33_Witness ==
    /\ state.status = "RUNNING"
    /\ state.overtimeMode = "COUNT_UP"
    /\ lastEvent.name = "tick"
    /\ run.counted = 2
    /\ now = run.t0 + 2 * MsPerSec
    /\ run.n - state.timeLeft = 2

====
